---- MODULE Spec2Model ----
(***************************************************************************)
(* Model of scripts/optim2sqlite.py: the converter that reads min.data /   *)
(* extractedmin and ts.data / extractedts and loads Minimum and            *)
(* TransitionState records into the storage.sqlite database through the    *)
(* pygmin Database session.                                                *)
(*                                                                         *)
(* Text is modelled character by character: a line is a sequence of        *)
(* one-character strings, a file is a sequence of lines.  Floating-point   *)
(* values are modelled in fixed point, as an integer number of tenths.     *)
(***************************************************************************)
EXTENDS Integers, Sequences, FiniteSets, TLC

(* Bounds of the model.  natoms is 38 in the script (line 6); the model    *)
(* scales the block size down, every other bound limits the inputs.        *)
natoms == 2
MaxMin == 2
MaxTs == 2
MaxRuns == 2

VARIABLES
    fs,        \* the four input files, by name (never written by the script)
    run,       \* number of the current execution of the script
    pc,        \* position of the script: "minima", "ts", "done", "failed"
    exc,       \* the exception that ended the run, "none" when there is none
    lineno,    \* lines the current summary-file iterator has yielded
    fcoords,   \* the open coordinate file: its name and the lines consumed
    mini,      \* counter to keep track of added minima
    minima,    \* the minima index: ordinal -> Minimum object
    session,   \* db.session: entities added and not yet committed
    store,     \* storage.sqlite: the committed rows, in insertion order
    nobj,      \* objects constructed so far (object identity)
    log,       \* history: the session calls of the current run, in order
    outcomes   \* history: how each earlier run ended

vars == <<fs, run, pc, exc, lineno, fcoords, mini, minima, session, store,
          nobj, log, outcomes>>

----------------------------------------------------------------------------
(* Characters and text *)

DigitChars == <<"0", "1", "2", "3", "4", "5", "6", "7", "8", "9">>

IsDigit(c) == \E d \in 1..Len(DigitChars) : DigitChars[d] = c

DigitVal(c) == (CHOOSE d \in 1..Len(DigitChars) : DigitChars[d] = c) - 1

IsSpace(c) == c \in {" ", "\t", "\n"}

AllDigits(s) == \A i \in 1..Len(s) : IsDigit(s[i])

RECURSIVE NatVal(_)
NatVal(s) ==
    IF s = <<>> THEN 0
    ELSE 10 * NatVal(SubSeq(s, 1, Len(s) - 1)) + DigitVal(s[Len(s)])

(* str.split() without arguments: the maximal runs of non-whitespace.      *)
RECURSIVE split_from(_, _, _, _)
split_from(s, i, cur, acc) ==
    IF i > Len(s)
    THEN IF cur = <<>> THEN acc ELSE Append(acc, cur)
    ELSE IF IsSpace(s[i])
         THEN split_from(s, i + 1, <<>>,
                         IF cur = <<>> THEN acc ELSE Append(acc, cur))
         ELSE split_from(s, i + 1, Append(cur, s[i]), acc)

split(s) == split_from(s, 1, <<>>, <<>>)

Unsigned(tok) == IF tok # <<>> /\ tok[1] \in {"-", "+"} THEN Tail(tok) ELSE tok

Sign(tok) == IF tok # <<>> /\ tok[1] = "-" THEN -1 ELSE 1

(* float(y) on decimal literals [sign] digits [. digits]; the value is in  *)
(* tenths, so fraction digits after the first are dropped.  Anything else  *)
(* raises ValueError.                                                      *)
float(tok) ==
    LET body == Unsigned(tok)
        dots == {i \in 1..Len(body) : body[i] = "."}
    IN  IF dots = {}
        THEN IF body # <<>> /\ AllDigits(body)
             THEN [exc |-> "none", val |-> Sign(tok) * 10 * NatVal(body)]
             ELSE [exc |-> "ValueError", val |-> 0]
        ELSE IF Cardinality(dots) = 1
        THEN LET p == CHOOSE i \in dots : TRUE
                 ip == SubSeq(body, 1, p - 1)
                 fp == SubSeq(body, p + 1, Len(body))
             IN  IF AllDigits(ip) /\ AllDigits(fp) /\ Len(ip) + Len(fp) > 0
                 THEN [exc |-> "none",
                       val |-> Sign(tok) * (10 * NatVal(ip)
                               + (IF fp = <<>> THEN 0 ELSE DigitVal(fp[1])))]
                 ELSE [exc |-> "ValueError", val |-> 0]
        ELSE [exc |-> "ValueError", val |-> 0]

(* int(y) on a string: [sign] digits, anything else raises ValueError.     *)
int(tok) ==
    LET body == Unsigned(tok)
    IN  IF body # <<>> /\ AllDigits(body)
        THEN [exc |-> "none", val |-> Sign(tok) * NatVal(body)]
        ELSE [exc |-> "ValueError", val |-> 0]

----------------------------------------------------------------------------
(* The coordinate reader *)

(* file.readline(): the next line, or the empty string at end of file.     *)
readline(file, pos) == IF pos < Len(file) THEN file[pos + 1] ELSE <<>>

(* the stream position after readline().                                   *)
advance(file, pos) == IF pos < Len(file) THEN pos + 1 ELSE pos

zeros(k) == [j \in 1..k |-> 0]

(* coords[i*3:i*3+3] = ys : numpy assigns three values one to one,         *)
(* broadcasts a single value over the slice, and refuses any other length. *)
slice_assign(coords, i, ys) ==
    IF Len(ys) = 3
    THEN [exc |-> "none",
          coords |-> [j \in 1..Len(coords) |->
                        IF j \in (3 * i + 1)..(3 * i + 3)
                        THEN ys[j - 3 * i] ELSE coords[j]]]
    ELSE IF Len(ys) = 1
    THEN [exc |-> "none",
          coords |-> [j \in 1..Len(coords) |->
                        IF j \in (3 * i + 1)..(3 * i + 3)
                        THEN ys[1] ELSE coords[j]]]
    ELSE [exc |-> "ValueError", coords |-> coords]

RECURSIVE read_coords_loop(_, _, _, _)
read_coords_loop(file, pos, i, coords) ==
    IF i = natoms
    THEN [exc |-> "none", coords |-> coords, pos |-> pos]
    ELSE LET x == split(readline(file, pos))
             next == advance(file, pos)
             fl == [j \in 1..Len(x) |-> float(x[j])]
         IN  IF \E j \in 1..Len(x) : fl[j].exc # "none"
             THEN [exc |-> "ValueError", coords |-> coords, pos |-> next]
             ELSE LET a == slice_assign(coords, i,
                                        [j \in 1..Len(x) |-> fl[j].val])
                  IN  IF a.exc # "none"
                      THEN [exc |-> a.exc, coords |-> coords, pos |-> next]
                      ELSE read_coords_loop(file, next, i + 1, a.coords)

(* faulty variant of read_coords: the file is read from its start on every *)
(* call.                                                                   *)
read_coords_reopened(file, pos) == read_coords_loop(file, 0, 0, zeros(3 * natoms))

(* lines 11-16 *)
read_coords(file, pos) == read_coords_loop(file, pos, 0, zeros(3 * natoms))

----------------------------------------------------------------------------
(* The input files *)

RECURSIVE Numeral(_)
Numeral(n) ==
    IF n < 10 THEN <<DigitChars[n + 1]>>
    ELSE Numeral(n \div 10) \o <<DigitChars[(n % 10) + 1]>>

RECURSIVE Text(_)
Text(tokens) ==
    IF tokens = <<>> THEN <<"\n">>
    ELSE <<" ">> \o Head(tokens) \o Text(Tail(tokens))

Half(n) == Numeral(n) \o <<".", "5">>
Neg(tok) == <<"-">> \o tok
Word == <<"a", "b", "c">>

(* line j of a well-formed coordinate file: x y z *)
CoordLine(j) == Text(<<Numeral(j), Half(j), Neg(Numeral(j))>>)

(* line k of a well-formed min.data: energy frequency pgorder itx ity itz *)
MinLine(k) ==
    Text(<<Neg(Half(k)), <<"1", ".", "0">>, <<"1">>, <<"0">>, <<"0">>, <<"0">>>>)

(* a ts.data line: energy frequency pgorder min1 min2 itx ity itz *)
TsLine(energy, min1, min2) ==
    Text(<<energy, <<"1", ".", "0">>, <<"1">>, min1, min2,
           <<"0">>, <<"0">>, <<"0">>>>)

FileNames == {"min.data", "extractedmin", "ts.data", "extractedts"}

Patterns == {"chain", "self", "back"}

(* the two minima the k-th transition state of a well-formed data set      *)
(* connects, out of n minima.                                              *)
Ord1(pat, k, n) ==
    IF n = 0 THEN 1
    ELSE IF pat = "back" THEN n - ((k - 1) % n) ELSE ((k - 1) % n) + 1

Ord2(pat, k, n) ==
    IF n = 0 THEN 1
    ELSE IF pat = "chain" THEN (k % n) + 1 ELSE Ord1(pat, k, n)

GoodCoords(cnt) == [j \in 1..(cnt * natoms) |-> CoordLine(j)]

GoodMinData(n) == [k \in 1..n |-> MinLine(k)]

GoodTsLine(pat, k, n) ==
    TsLine(Half(k), Numeral(Ord1(pat, k, n)), Numeral(Ord2(pat, k, n)))

GoodTsData(pat, n, m) == [k \in 1..m |-> GoodTsLine(pat, k, n)]

GoodFiles(pat, n, m) ==
    [name \in FileNames |->
        CASE name = "min.data" -> GoodMinData(n)
          [] name = "extractedmin" -> GoodCoords(n)
          [] name = "ts.data" -> GoodTsData(pat, n, m)
          [] name = "extractedts" -> GoodCoords(m)]

(* malformed lines *)
BadCoordLines ==
    { <<"\n">>,
      Text(<<<<"7">>>>),
      Text(<<<<"1">>, <<"2">>>>),
      Text(<<<<"1">>, <<"2">>, <<"3">>, <<"4">>>>),
      Text(<<<<"1">>, Word, <<"3">>>>) }

BadMinLines ==
    { Text(<<Neg(Half(1)), <<"1", ".", "0">>, <<"1">>, <<"0">>, <<"0">>>>),
      Text(<<Word, <<"1", ".", "0">>, <<"1">>, <<"0">>, <<"0">>, <<"0">>>>) }

BadTsLines(pat, k, n) ==
    { Text(<<Half(k), <<"1", ".", "0">>, <<"1">>, <<"1">>, <<"1">>,
             <<"0">>, <<"0">>>>),
      TsLine(Word, Numeral(Ord1(pat, k, n)), Numeral(Ord2(pat, k, n))),
      TsLine(Half(k), <<"1", ".", "0">>, Numeral(Ord2(pat, k, n))),
      TsLine(Half(k), Numeral(n + 1), Numeral(Ord2(pat, k, n))),
      TsLine(Half(k), Numeral(Ord1(pat, k, n)), Numeral(n + 1)),
      TsLine(Half(k), Numeral(Ord1(pat, k, n)), <<"0">>) }

CoordVariants(file) ==
    {[file EXCEPT ![j] = b] : j \in 1..Len(file), b \in BadCoordLines}
    \cup (IF file = <<>> THEN {} ELSE {SubSeq(file, 1, Len(file) - 1)})
    \cup {file \o <<CoordLine(Len(file) + 1)>>}
    \cup {file \o [j \in 1..natoms |-> CoordLine(Len(file) + j)]}

(* a well-formed data set, or one with a single defect in one file *)
OneDefect(pat, n, m) ==
    LET good == GoodFiles(pat, n, m)
    IN  {good}
        \cup {[good EXCEPT !["min.data"] = [@ EXCEPT ![k] = b]] :
                 k \in 1..n, b \in BadMinLines}
        \cup {[good EXCEPT !["extractedmin"] = v] :
                 v \in CoordVariants(good["extractedmin"])}
        \cup UNION {{[good EXCEPT !["ts.data"] = [@ EXCEPT ![k] = b]] :
                        b \in BadTsLines(pat, k, n)} : k \in 1..m}
        \cup {[good EXCEPT !["extractedts"] = v] :
                 v \in CoordVariants(good["extractedts"])}

DataSets ==
    UNION {OneDefect(pat, n, m) : pat \in Patterns, n \in 0..MaxMin, m \in 0..MaxTs}

----------------------------------------------------------------------------
(* The entities and the session *)

(* Minimum(energy, coords); oid is the identity of the new object, run and *)
(* line record where it was built.                                         *)
Minimum(oid, energy, coords) ==
    [type |-> "Minimum", oid |-> oid, run |-> run, line |-> lineno + 1,
     energy |-> energy, coords |-> coords, min1 |-> 0, min2 |-> 0]

(* TransitionState(energy, coords, min1, min2): holds references to the    *)
(* two Minimum objects.                                                    *)
TransitionState(oid, energy, coords, min1, min2) ==
    [type |-> "TransitionState", oid |-> oid, run |-> run, line |-> lineno + 1,
     energy |-> energy, coords |-> coords, min1 |-> min1.oid, min2 |-> min2.oid]

(* db.session.add(e): e is pending until the next commit.                  *)
session_add(sess, e) == Append(sess, e)

(* db.session.commit(): every pending entity becomes durable, in order.    *)
session_commit(rows, sess) == rows \o sess

(* faulty variant of add_minimum: a minimum the database already holds     *)
(* (same energy and coordinates) is not added again.                       *)
add_minimum_once(sess, e) ==
    IF \E i \in 1..Len(store) :
          /\ store[i].type = "Minimum"
          /\ store[i].energy = e.energy
          /\ store[i].coords = e.coords
    THEN sess
    ELSE session_add(sess, e)

(* line 35: db.session.add(min1) *)
add_minimum(sess, e) == session_add(sess, e)

(* line 53: db.session.add(ts) *)
add_ts(sess, e) == session_add(sess, e)

(* line 36: minima[mini] = min1 *)
index_put(index, key, e) ==
    [k \in (DOMAIN index) \cup {key} |-> IF k = key THEN e ELSE index[k]]

(* line 20: mini = 1 *)
mini_start == 1

(* faulty variant of mini_next: the counter is never incremented.          *)
mini_stuck(k) == k

(* line 37: mini += 1 *)
mini_next(k) == k + 1

(* faulty variant of lookup: an unknown ordinal falls back to minimum 1.   *)
lookup_or_first(index, tok) ==
    LET k == int(tok)
    IN  IF k.exc # "none" THEN [exc |-> "ValueError", obj |-> <<>>]
        ELSE IF k.val \in DOMAIN index THEN [exc |-> "none", obj |-> index[k.val]]
        ELSE IF 1 \in DOMAIN index THEN [exc |-> "none", obj |-> index[1]]
        ELSE [exc |-> "KeyError", obj |-> <<>>]

(* line 52: minima[int(min1)] *)
lookup(index, tok) ==
    LET k == int(tok)
    IN  IF k.exc # "none" THEN [exc |-> "ValueError", obj |-> <<>>]
        ELSE IF k.val \in DOMAIN index THEN [exc |-> "none", obj |-> index[k.val]]
        ELSE [exc |-> "KeyError", obj |-> <<>>]

----------------------------------------------------------------------------
(* The script *)

Init ==
    /\ fs \in DataSets
    /\ run = 1
    /\ pc = "minima"
    /\ exc = "none"
    /\ lineno = 0
    /\ fcoords = [name |-> "extractedmin", pos |-> 0]
    /\ mini = mini_start
    /\ minima = <<>>
    /\ session = <<>>
    /\ store = <<>>
    /\ nobj = 0
    /\ log = <<>>
    /\ outcomes = <<>>

(* an uncaught exception ends the script *)
raise(e) ==
    /\ pc' = "failed"
    /\ exc' = e
    /\ UNCHANGED <<mini, minima, session, store, nobj, log>>

(* lines 31-37: one iteration of the loop over min.data *)
MinimaStep ==
    /\ pc = "minima"
    /\ lineno < Len(fs["min.data"])
    /\ LET line == fs["min.data"][lineno + 1]
           rc == read_coords(fs[fcoords.name], fcoords.pos)
           f == split(line)
           energy == float(f[1])
           min1 == Minimum(nobj + 1, energy.val, rc.coords)
       IN  /\ lineno' = lineno + 1
           /\ fcoords' = [fcoords EXCEPT !.pos = rc.pos]
           /\ IF rc.exc # "none" THEN raise(rc.exc)
              ELSE IF Len(f) # 6 THEN raise("ValueError")
              ELSE IF energy.exc # "none" THEN raise(energy.exc)
              ELSE /\ nobj' = nobj + 1
                   /\ session' = add_minimum(session, min1)
                   /\ minima' = index_put(minima, mini, min1)
                   /\ mini' = mini_next(mini)
                   /\ log' = Append(log, "add Minimum")
                   /\ UNCHANGED <<pc, exc, store>>
    /\ UNCHANGED <<fs, run, outcomes>>

(* faulty variant of minima_loop_over: the loop may be left at any line.   *)
minima_loop_left_early == TRUE

(* line 31: the loop over min.data has ended *)
minima_loop_over == lineno = Len(fs["min.data"])

(* lines 42-48: commit the minima, then open extractedts and ts.data *)
CommitMinima ==
    /\ pc = "minima"
    /\ minima_loop_over
    /\ log' = Append(log, "commit")
    /\ \/ /\ store' = session_commit(store, session)
          /\ session' = <<>>
          /\ pc' = "ts"
          /\ lineno' = 0
          /\ fcoords' = [name |-> "extractedts", pos |-> 0]
          /\ UNCHANGED exc
       \/ /\ pc' = "failed"
          /\ exc' = "PersistenceError"
          /\ UNCHANGED <<store, session, lineno, fcoords>>
    /\ UNCHANGED <<fs, run, mini, minima, nobj, outcomes>>

(* faulty variant of ts_loop_more: the last line of ts.data is not read.   *)
ts_loop_skips_last == lineno + 1 < Len(fs["ts.data"])

(* line 49: ts.data has another line *)
ts_loop_more == lineno < Len(fs["ts.data"])

(* lines 49-53: one iteration of the loop over ts.data *)
TsStep ==
    /\ pc = "ts"
    /\ ts_loop_more
    /\ LET line == fs["ts.data"][lineno + 1]
           rc == read_coords(fs[fcoords.name], fcoords.pos)
           f == split(line)
           energy == float(f[1])
           m1 == lookup(minima, f[4])
           m2 == lookup(minima, f[5])
           ts == TransitionState(nobj + 1, energy.val, rc.coords, m1.obj, m2.obj)
       IN  /\ lineno' = lineno + 1
           /\ fcoords' = [fcoords EXCEPT !.pos = rc.pos]
           /\ IF rc.exc # "none" THEN raise(rc.exc)
              ELSE IF Len(f) # 8 THEN raise("ValueError")
              ELSE IF energy.exc # "none" THEN raise(energy.exc)
              ELSE IF m1.exc # "none" THEN raise(m1.exc)
              ELSE IF m2.exc # "none" THEN raise(m2.exc)
              ELSE /\ nobj' = nobj + 1
                   /\ session' = add_ts(session, ts)
                   /\ log' = Append(log, "add TransitionState")
                   /\ UNCHANGED <<pc, exc, store, mini, minima>>
    /\ UNCHANGED <<fs, run, outcomes>>

(* lines 55-60: commit the transition states; the script ends *)
CommitTs ==
    /\ pc = "ts"
    /\ ~ts_loop_more
    /\ log' = Append(log, "commit")
    /\ \/ /\ store' = session_commit(store, session)
          /\ session' = <<>>
          /\ pc' = "done"
          /\ UNCHANGED exc
       \/ /\ pc' = "failed"
          /\ exc' = "PersistenceError"
          /\ UNCHANGED <<store, session>>
    /\ UNCHANGED <<fs, run, lineno, fcoords, mini, minima, nobj, outcomes>>

(* the script is started again on the same files and the same database:    *)
(* lines 6-27 run in a new process, storage.sqlite keeps its rows.         *)
Rerun ==
    /\ pc \in {"done", "failed"}
    /\ run < MaxRuns
    /\ run' = run + 1
    /\ outcomes' = Append(outcomes, pc)
    /\ pc' = "minima"
    /\ exc' = "none"
    /\ lineno' = 0
    /\ fcoords' = [name |-> "extractedmin", pos |-> 0]
    /\ mini' = mini_start
    /\ minima' = <<>>
    /\ session' = <<>>
    /\ log' = <<>>
    /\ UNCHANGED <<fs, store, nobj>>

RunStep == MinimaStep \/ CommitMinima \/ TsStep \/ CommitTs

Next == RunStep \/ Rerun

Spec == Init /\ [][Next]_vars

----------------------------------------------------------------------------
(* Vocabulary of the properties *)

Terminated == pc \in {"done", "failed"}

(* every entity the database holds or the session has pending *)
Rows == store \o session

CountOf(rows, type, r) ==
    Cardinality({i \in 1..Len(rows) : rows[i].type = type /\ rows[i].run = r})

CountAll(rows, type) ==
    Cardinality({i \in 1..Len(rows) : rows[i].type = type})

NumMin == Len(fs["min.data"])
NumTs == Len(fs["ts.data"])

Numeric(tok) == float(tok).exc = "none"
Integral(tok) == int(tok).exc = "none"

WellFormedCoordLine(l) ==
    LET x == split(l) IN Len(x) = 3 /\ \A j \in 1..3 : Numeric(x[j])

WellFormedCoords(name, cnt) ==
    /\ Len(fs[name]) = natoms * cnt
    /\ \A j \in 1..Len(fs[name]) : WellFormedCoordLine(fs[name][j])

WellFormedMinLine(l) ==
    LET f == split(l)
    IN  /\ Len(f) = 6
        /\ \A j \in {1, 2, 4, 5, 6} : Numeric(f[j])
        /\ Integral(f[3])

WellFormedTsLine(l) ==
    LET f == split(l)
    IN  /\ Len(f) = 8
        /\ \A j \in {1, 2, 6, 7, 8} : Numeric(f[j])
        /\ \A j \in {3, 4, 5} : Integral(f[j])
        /\ \A j \in {4, 5} : int(f[j]).val \in 1..NumMin

ValidInputs ==
    /\ \A k \in 1..NumMin : WellFormedMinLine(fs["min.data"][k])
    /\ \A k \in 1..NumTs : WellFormedTsLine(fs["ts.data"][k])
    /\ WellFormedCoords("extractedmin", NumMin)
    /\ WellFormedCoords("extractedts", NumTs)

CoordFileOf(e) == IF e.type = "Minimum" THEN "extractedmin" ELSE "extractedts"

(* the coordinate lines of the block that belongs to summary line k *)
BlockLines(k) == ((k - 1) * natoms + 1)..(k * natoms)

InPhase2 == fcoords.name = "extractedts"

CommitCalls == Cardinality({i \in 1..Len(log) : log[i] = "commit"})

(* line k of ts.data names, in well-formed fields, an ordinal that is no   *)
(* key of the minima index                                                 *)
AbsentOrdinal(k) ==
    LET f == split(fs["ts.data"][k])
    IN  /\ Len(f) = 8
        /\ Integral(f[4]) /\ Integral(f[5])
        /\ \E j \in {4, 5} : int(f[j]).val \notin DOMAIN minima

----------------------------------------------------------------------------
(* C1: every TransitionState that is pending or committed references two  *)
(* Minimum rows of its own run, and they are the minima built from the     *)
(* min.data lines its two ordinals name (for the current run: the objects  *)
(* the index holds under those ordinals).                                  *)
ReferentialIntegrity ==
    \A i \in 1..Len(Rows) :
        Rows[i].type = "TransitionState" =>
            LET t == Rows[i]
                f == split(fs["ts.data"][t.line])
                o1 == int(f[4]).val
                o2 == int(f[5]).val
                Target(oid, o) ==
                    \E a \in 1..Len(store) :
                        /\ store[a].type = "Minimum"
                        /\ store[a].oid = oid
                        /\ store[a].run = t.run
                        /\ store[a].line = o
            IN  /\ Target(t.min1, o1)
                /\ Target(t.min2, o2)
                /\ t.run = run =>
                      /\ o1 \in DOMAIN minima /\ minima[o1].oid = t.min1
                      /\ o2 \in DOMAIN minima /\ minima[o2].oid = t.min2

ReferentialIntegrityWitness ==
    \E i \in 1..Len(store) :
        /\ store[i].type = "TransitionState"
        /\ store[i].run = 2
        /\ store[i].min1 # store[i].min2

(* C2: a run that completes has called add for every min.data line, then   *)
(* commit, then add for every ts.data line, then commit, and nothing else; *)
(* and in no run is a Minimum added after a commit or a TransitionState    *)
(* added before one.                                                       *)
TwoCommits ==
    /\ pc = "done" =>
          log = [i \in 1..(NumMin + NumTs + 2) |->
                    IF i <= NumMin THEN "add Minimum"
                    ELSE IF i = NumMin + 1 THEN "commit"
                    ELSE IF i <= NumMin + NumTs + 1 THEN "add TransitionState"
                    ELSE "commit"]
    /\ \A i \in 1..Len(log) :
          /\ log[i] = "add Minimum" =>
                \A h \in 1..(i - 1) : log[h] # "commit"
          /\ log[i] = "add TransitionState" =>
                \E h \in 1..(i - 1) : log[h] = "commit"

TwoCommitsWitness ==
    pc = "done" /\ NumMin >= 2 /\ NumTs >= 2

(* C3 (as claimed): after a run has failed the database holds no row that  *)
(* this run added.                                                         *)
NoPartialImport ==
    pc = "failed" => \A i \in 1..Len(store) : store[i].run # run

(* C4 (as claimed): when the run fails with a lookup error, no             *)
(* TransitionState of the run has been added to the session.               *)
LookupFailsBeforeAnyStaged ==
    (pc = "failed" /\ exc = "KeyError") =>
        CountOf(session, "TransitionState", run) = 0

(* C4 (amended): once the loop over ts.data has taken a line that names an *)
(* absent ordinal the run has failed at that line, with KeyError when the  *)
(* line's coordinate block and energy parse; the lines before it have been *)
(* added to the session, that line and the later ones have not, and no     *)
(* TransitionState of the run is in the database.                          *)
LookupFailsAtOffendingLine ==
    (InPhase2 /\ lineno >= 1 /\ AbsentOrdinal(lineno)) =>
        /\ pc = "failed"
        /\ exc \in {"KeyError", "ValueError"}
        /\ ((\A j \in BlockLines(lineno) :
                 j <= Len(fs["extractedts"])
                 /\ WellFormedCoordLine(fs["extractedts"][j]))
            /\ Numeric(split(fs["ts.data"][lineno])[1])) => exc = "KeyError"
        /\ CountOf(session, "TransitionState", run) = lineno - 1
        /\ \A i \in 1..Len(session) :
              session[i].type = "TransitionState" => session[i].line < lineno
        /\ CountOf(store, "TransitionState", run) = 0

LookupFailsAtOffendingLineWitness ==
    /\ pc = "failed" /\ exc = "KeyError"
    /\ lineno = 2 /\ AbsentOrdinal(lineno)
    /\ CountOf(session, "TransitionState", run) = 1

(* C5: once the first commit has been called, the index has exactly the    *)
(* keys 1..n for the n lines of min.data, key k holds the Minimum built    *)
(* from line k with the energy of that line, and the run has created       *)
(* exactly these n Minimum objects, in this order.                         *)
IndexAfterPhase1 ==
    CommitCalls >= 1 =>
        LET mine == SelectSeq(Rows, LAMBDA e : e.type = "Minimum" /\ e.run = run)
        IN  /\ DOMAIN minima = 1..NumMin
            /\ mini = NumMin + 1
            /\ Len(mine) = NumMin
            /\ \A k \in 1..NumMin :
                  /\ minima[k] = mine[k]
                  /\ minima[k].line = k
                  /\ minima[k].energy = float(split(fs["min.data"][k])[1]).val
                  /\ \A h \in 1..NumMin : minima[h].oid = minima[k].oid => h = k

IndexAfterPhase1Witness ==
    CommitCalls = 1 /\ NumMin >= 2 /\ pc = "ts"

(* the steps the run still has to take: one per unread summary line and   *)
(* one per commit                                                          *)
Remaining ==
    CASE pc = "minima" -> (NumMin - lineno) + NumTs + 2
      [] pc = "ts" -> (NumTs - lineno) + 1
      [] OTHER -> 0

(* the guard of one of the run's steps holds *)
CanStep ==
    \/ pc = "minima" /\ (lineno < NumMin \/ minima_loop_over)
    \/ pc = "ts" /\ (ts_loop_more \/ ~ts_loop_more)

(* C6: a run that ends normally has put one TransitionState per line of    *)
(* ts.data into the database and left nothing pending; on valid inputs a   *)
(* run fails only if a commit fails; and every run ends: a run that has    *)
(* not ended can take a step, and each of its steps lowers the number of   *)
(* steps that remain, which is never negative.                             *)
TsCountAndTermination ==
    /\ [](pc = "done" =>
            /\ CountOf(store, "TransitionState", run) = NumTs
            /\ session = <<>>)
    /\ []((ValidInputs /\ pc = "failed") => exc = "PersistenceError")
    /\ [](Remaining >= 0 /\ (~Terminated => CanStep))
    /\ [][~Terminated => (run' = run /\ Remaining' < Remaining)]_vars

TsCountWitness ==
    ValidInputs /\ pc = "done" /\ NumTs >= 2

(* C7 (as claimed): a run ends normally only if each coordinate file holds *)
(* exactly one block per line of its summary file.                         *)
CountMismatchFails ==
    pc = "done" =>
        /\ Len(fs["extractedmin"]) = natoms * NumMin
        /\ Len(fs["extractedts"]) = natoms * NumTs

(* C8 (as claimed): every coordinate line that went into an entity has     *)
(* at least three tokens, all numeric.                                     *)
ShortLinesRejected ==
    \A i \in 1..Len(Rows) : \A j \in BlockLines(Rows[i].line) :
        LET x == split(fs[CoordFileOf(Rows[i])][j])
        IN  Len(x) >= 3 /\ \A c \in 1..Len(x) : Numeric(x[c])

(* C9: when every run so far has ended normally, the database holds one    *)
(* Minimum per min.data line and one TransitionState per ts.data line for  *)
(* each run; the rows of a later run repeat the rows of the first run      *)
(* under new identities, and its transition states reference its own       *)
(* minima.                                                                 *)
NotIdempotent ==
    (pc = "done" /\ \A r \in 1..Len(outcomes) : outcomes[r] = "done") =>
        /\ CountAll(store, "Minimum") = run * NumMin
        /\ CountAll(store, "TransitionState") = run * NumTs
        /\ \A i \in 1..Len(store) : \A j \in 1..Len(store) :
              store[i].oid = store[j].oid => i = j
        /\ \A i \in 1..Len(store) : \A r \in 1..run :
              \E j \in 1..Len(store) :
                  /\ store[j].run = r
                  /\ store[j].type = store[i].type
                  /\ store[j].line = store[i].line
                  /\ store[j].energy = store[i].energy
                  /\ store[j].coords = store[i].coords
        /\ \A i \in 1..Len(store) :
              store[i].type = "TransitionState" =>
                  \A j \in 1..Len(store) :
                      store[j].oid \in {store[i].min1, store[i].min2} =>
                          store[j].type = "Minimum" /\ store[j].run = store[i].run

NotIdempotentWitness ==
    /\ run = 2 /\ pc = "done" /\ outcomes = <<"done">>
    /\ NumMin >= 2 /\ NumTs >= 1
    /\ CountAll(store, "Minimum") = 2 * NumMin

(* C10: while a loop runs, the coordinate stream stands exactly natoms     *)
(* lines per summary line read; and an entity built from summary line k    *)
(* of a file whose coordinate lines are all well formed carries lines      *)
(* (k-1)*natoms+1 .. k*natoms of the coordinate file, in order, as 3       *)
(* values per line.                                                        *)
BlocksInOrder ==
    /\ pc \in {"minima", "ts"} => fcoords.pos = natoms * lineno
    /\ \A name \in {"extractedmin", "extractedts"} :
          (\A j \in 1..Len(fs[name]) : WellFormedCoordLine(fs[name][j])) =>
              \A i \in 1..Len(Rows) :
                  CoordFileOf(Rows[i]) = name =>
                      /\ Len(Rows[i].coords) = 3 * natoms
                      /\ \A a \in 0..(natoms - 1) :
                            /\ (Rows[i].line - 1) * natoms + a + 1 <= Len(fs[name])
                            /\ \A x \in {split(fs[name][(Rows[i].line - 1) * natoms + a + 1])} :
                                  \A c \in 1..3 :
                                      Rows[i].coords[3 * a + c] = float(x[c]).val

BlocksInOrderWitness ==
    \E i \in 1..Len(store) : \E j \in 1..Len(store) :
        /\ store[i].type = "Minimum" /\ store[i].line = 2
        /\ store[j].type = "TransitionState" /\ store[j].line = 2
        /\ ValidInputs

====
